---- MODULE Spec2Model ----
(***************************************************************************)
(* Rank-based ordering of tasks inside stories (smitbarmase/pods).         *)
(*                                                                         *)
(* The model covers TaskResolver (server/src/resolvers/task-resolver.ts):  *)
(* moveTask, createTask, assignUserToTask, removeUserFromTask, deleteTask, *)
(* each cut into steps at its awaits, and the rank key generator midString *)
(* (server/src/utils/mid-string), which is modelled from the written       *)
(* specification (section 4.1) because its source is not available.        *)
(*                                                                         *)
(* A key is a sequence of characters; a character is a number 1..Alphabet  *)
(* ('a' is 1, 'b' is 2, the last character 'z' is Alphabet).  The empty    *)
(* sequence stands for an absent bound, as the code passes "".             *)
(***************************************************************************)
EXTENDS Integers, Sequences, FiniteSets, TLC

(***************************************************************************)
(* Bounds of the model.                                                    *)
(***************************************************************************)
\* number of characters of the key alphabet
Alphabet == 4
\* longest key drawn as an input of the generator
MaxKeyLen == 3

(***************************************************************************)
(* RankKeyGenerator (spec section 4.1).                                    *)
(***************************************************************************)
\* the virtual character below 'a' that pads an exhausted lower bound
LoChar == 0
\* the virtual character above 'z' that pads an exhausted upper bound
HiChar == Alphabet + 1

NoKey == << >>

\* lexicographic order on keys (string comparison of the ORDER BY)
RECURSIVE KeyLess(_, _)
KeyLess(a, b) ==
  IF b = << >> THEN FALSE
  ELSE IF a = << >> THEN TRUE
  ELSE IF a[1] # b[1] THEN a[1] < b[1]
  ELSE KeyLess(Tail(a), Tail(b))

KeyLeq(a, b) == a = b \/ KeyLess(a, b)

CharAt(s, k, pad) == IF k <= Len(s) THEN s[k] ELSE pad

\* midpoint of two characters, rounded up
MidCharFloor(p, n) == (p + n) \div 2
MidChar(p, n) == (p + n + 1) \div 2

\* first position at which the padded bounds differ
FirstDiff(prev, next) ==
  CHOOSE k \in 1..((IF Len(prev) > Len(next) THEN Len(prev) ELSE Len(next)) + 1) :
    /\ CharAt(prev, k, LoChar) # CharAt(next, k, HiChar)
    /\ \A j \in 1..(k - 1) : CharAt(prev, j, LoChar) = CharAt(next, j, HiChar)

\* lower bound exhausted: copy the 'a's of the upper bound, then take the
\* midpoint below its first character that is not 'a'
RECURSIVE BelowNext(_, _, _, _)
BelowNext(str, n, next, k) ==
  IF n = 1
    THEN BelowNext(Append(str, 1), CharAt(next, k, HiChar), next, k + 1)
    ELSE IF n = 2
      THEN str \o << 1, MidChar(LoChar, HiChar) >>
      ELSE Append(str, MidChar(LoChar, n))

\* adjacent characters: keep the lower one, copy the 'z's that follow it in
\* the lower bound, then take the midpoint above its first character that is
\* not 'z'
RECURSIVE AbovePrev(_, _, _)
AbovePrev(str, prev, k) ==
  IF CharAt(prev, k, LoChar) = Alphabet
    THEN AbovePrev(Append(str, Alphabet), prev, k + 1)
    ELSE Append(str, MidChar(CharAt(prev, k, LoChar), HiChar))

\* the two bounds are both present and not in strictly ascending order
DegenerateRange(prev, next) ==
  /\ prev # NoKey
  /\ next # NoKey
  /\ ~KeyLess(prev, next)

\* generate(prev, next): a key strictly between the bounds
midStringNoCarry(prev, next) ==
  LET k == FirstDiff(prev, next)
      p == CharAt(prev, k, LoChar)
      n == CharAt(next, k, HiChar)
      str == SubSeq(prev, 1, k - 1)
  IN  IF p = LoChar THEN BelowNext(str, n, next, k + 1)
      ELSE Append(str, MidChar(p, n))
midString(prev, next) ==
  LET k == FirstDiff(prev, next)
      p == CharAt(prev, k, LoChar)
      n == CharAt(next, k, HiChar)
      str == SubSeq(prev, 1, k - 1)
  IN  IF p = LoChar THEN BelowNext(str, n, next, k + 1)
      ELSE IF p + 1 = n THEN AbovePrev(Append(str, p), prev, k + 1)
      ELSE Append(str, MidChar(p, n))

\* the canonical default key: the middle character of the alphabet
DefaultKey == << (Alphabet + 2) \div 2 >>

\* the key space: non-empty strings over the alphabet that do not end in 'a'
\* (no key lies below "a", so the generator never produces a key ending in
\* 'a')
IsKey(s) ==
  /\ s # << >>
  /\ \A k \in 1..Len(s) : s[k] \in 1..Alphabet
  /\ s[Len(s)] # 1

RECURSIVE StringsOfLen(_)
StringsOfLen(n) ==
  IF n = 0 THEN { << >> }
  ELSE { Append(s, ch) : s \in StringsOfLen(n - 1), ch \in 1..Alphabet }

Keys == { s \in UNION { StringsOfLen(n) : n \in 1..MaxKeyLen } : IsKey(s) }


(***************************************************************************)
(* More bounds of the model.                                               *)
(***************************************************************************)
\* stories (collections) of the pod
NumStories == 2
\* createTask calls that may be started
MaxTasks == 3
\* moveTask calls that may be started
MaxMoves == 2
\* calls of each kind that may be started when calls interleave
ConcTasks == 2
ConcMoves == 2
\* calls of each kind that may be started when all handlers interleave
AllTasks == 2
AllMoves == 1
\* assignUserToTask, removeUserFromTask and deleteTask calls that may be started
AllOther == 1
\* largest index a caller passes when calls interleave (the smallest is 0)
ConcMaxIndex == 1
\* largest index a caller passes (the smallest is -1)
MaxIndex == 2
\* users that can be assigned to a task
NumUsers == 1
\* requests that can be in flight at once
NumCalls == 2

Stories == 1..NumStories
Users == 1..NumUsers
Calls == 1..NumCalls
\* title lengths on both sides of the validation of createTask
TitleLengths == {2, 3}
\* the story column of a task row whose relation has not been set
NoStory == 0

(***************************************************************************)
(* State.                                                                  *)
(*   tasks    the task table: id -> [rank, story]                          *)
(*   users    the task/user join table                                     *)
(*   nextId   the next generated task id                                   *)
(*   call     per request: where the handler is and its local variables    *)
(*            (pc, the arguments, prevRank/nextRank/newRank), with the     *)
(*            history the properties are stated on: pre (the table when    *)
(*            the call started, recorded where calls run one at a time),   *)
(*            accurate (the arguments described the table), seq (number of the moveTask call),        *)
(*            racing (the moveTask calls that had read their neighbours    *)
(*            and not yet written when this call wrote), retry (the call   *)
(*            repeats the call that just returned true)                    *)
(*   creates, moves, others   numbers of calls started (bounds the model)   *)
(*   genPrev, genNext, genOut   inputs and output of the generator when it *)
(*            is exercised on its own (SpecGen)                            *)
(***************************************************************************)
VARIABLES tasks, users, nextId, call, creates, moves, others,
          genPrev, genNext, genOut

store == << tasks, users, nextId >>
counters == << creates, moves, others >>
gen == << genPrev, genNext, genOut >>
vars == << tasks, users, nextId, call, creates, moves, others,
           genPrev, genNext, genOut >>

IdleCall ==
  [ pc |-> "idle", op |-> "none", taskId |-> 0, userId |-> 0,
    sourceIndex |-> 0, destinationIndex |-> 0,
    sourceStoryId |-> 0, destinationStoryId |-> 0,
    prevRank |-> NoKey, nextRank |-> NoKey, newRank |-> NoKey,
    result |-> "none", reads |-> 0, writes |-> 0, fault |-> "none",
    pre |-> << >>, accurate |-> FALSE, seq |-> 0, racing |-> {},
    retry |-> FALSE ]

\* the generator has not been applied
Pending == [status |-> "pending", key |-> NoKey]

\* the database after the migrations, and no request in flight
StoreInit ==
  /\ tasks = << >>
  /\ users = {}
  /\ nextId = 1
  /\ call = [c \in Calls |-> IdleCall]
  /\ creates = 0
  /\ moves = 0
  /\ others = 0

Init ==
  /\ StoreInit
  /\ genPrev = NoKey
  /\ genNext = NoKey
  /\ genOut = Pending

(***************************************************************************)
(* The ordered neighbour query:                                            *)
(*   innerJoin(task.story).where(story.id = s).orderBy(task.rank, ASC)     *)
(***************************************************************************)
TasksOf(tk, s) == { t \in DOMAIN tk : tk[t].story = s }

\* every order the database may return the rows in: ascending by rank, rows
\* of equal rank in any order
Orderings(tk, s) ==
  LET ids == TasksOf(tk, s)
      n == Cardinality(ids)
  IN  { f \in [1..n -> ids] :
          /\ \A i, j \in 1..n : i # j => f[i] # f[j]
          /\ \A i, j \in 1..n : i < j => KeyLeq(tk[f[i]].rank, tk[f[j]].rank) }

\* rank of the row at position k (from 1) of a result, "" when there is none
RankAt(tk, ord, k) == IF k \in 1..Len(ord) THEN tk[ord[k]].rank ELSE NoKey

Free(c) == call[c].pc \in {"idle", "done"}

Finish(c, res, fl) ==
  call' = [call EXCEPT ![c].pc = "done", ![c].result = res, ![c].fault = fl]

(***************************************************************************)
(* moveTask                                                                *)
(***************************************************************************)
\* the checks before any query
EarlyExitIndexOnly(si, di, ss, ds) ==
  \/ di < 0
  \/ si < 0
EarlyExit(si, di, ss, ds) ==
  \/ di < 0
  \/ si < 0
  \/ (ss = ds /\ si = di)

\* the arguments of a call describe the table it started on: the task is at
\* sourceIndex of sourceStoryId and destinationIndex is a position of the
\* destination story
AccurateArgs(tk, t, si, di, ss, ds) ==
  /\ t \in TasksOf(tk, ss)
  /\ \E ord \in Orderings(tk, ss) :
       /\ si + 1 \in 1..Len(ord)
       /\ ord[si + 1] = t
  /\ di >= 0
  /\ IF ss = ds
       THEN di < Cardinality(TasksOf(tk, ss))
       ELSE di <= Cardinality(TasksOf(tk, ds))

\* the table a call starts on, when it is recorded
Snapshot(keep) == IF keep THEN tasks ELSE << >>

\* the request repeats the call that has just returned true on this
\* connection, nothing having run in between
IsRetry(c, t, si, di, ss, ds) ==
  /\ call[c].op = "moveTask"
  /\ call[c].pc = "done"
  /\ call[c].result = "true"
  /\ call[c].taskId = t
  /\ call[c].sourceIndex = si
  /\ call[c].destinationIndex = di
  /\ call[c].sourceStoryId = ss
  /\ call[c].destinationStoryId = ds
  /\ call[c].accurate
  /\ \A d \in Calls \ {c} : Free(d)
  /\ t \in DOMAIN tasks
  /\ tasks[t].rank = call[c].newRank

MoveBegin(c, t, si, di, ss, ds, keep) ==
  /\ Free(c)
  /\ moves' = moves + 1
  /\ call' = [call EXCEPT ![c] =
       [ IdleCall EXCEPT
           !.pc = IF EarlyExit(si, di, ss, ds) THEN "done" ELSE "read",
           !.result = IF EarlyExit(si, di, ss, ds) THEN "false" ELSE "none",
           !.op = "moveTask", !.taskId = t,
           !.sourceIndex = si, !.destinationIndex = di,
           !.sourceStoryId = ss, !.destinationStoryId = ds,
           !.pre = Snapshot(keep),
           !.accurate = AccurateArgs(tasks, t, si, di, ss, ds),
           !.seq = moves + 1,
           !.retry = IsRetry(c, t, si, di, ss, ds) ]]
  /\ UNCHANGED << store, creates, others, gen >>

\* rows skipped by the query of the same-story branch
SameStoryOffsetNoShift(si, di) == di - 1
SameStoryOffset(si, di) == IF di < si THEN di - 1 ELSE di

\* rows skipped by the query of the different-stories branch
OtherStoryOffsetAsIs(di) == di
OtherStoryOffset(di) == di - 1

QueryOffsetAlwaysIndex(r) == r.destinationIndex
QueryOffset(r) ==
  IF r.sourceStoryId = r.destinationStoryId
    THEN SameStoryOffset(r.sourceIndex, r.destinationIndex)
    ELSE OtherStoryOffset(r.destinationIndex)

\* the story the neighbours are read from
QueryStory(r) ==
  IF r.sourceStoryId = r.destinationStoryId
    THEN r.sourceStoryId ELSE r.destinationStoryId

\* [prevTask, nextTask] of the handler, as ranks
PrevRank(tk, r, ord) ==
  IF r.destinationIndex = 0 THEN NoKey
  ELSE RankAt(tk, ord, QueryOffset(r) + 1)

NextRank(tk, r, ord) ==
  IF r.destinationIndex = 0 THEN RankAt(tk, ord, 1)
  ELSE RankAt(tk, ord, QueryOffset(r) + 2)

\* what the catch of moveTask returns
CatchResultSwallowed == "true"
CatchResult == "false"

\* the query returns; the new rank is computed and the update is issued, or
\* the generator throws and the catch returns false
MoveRead(c) ==
  /\ call[c].pc = "read"
  /\ \E ord \in Orderings(tasks, QueryStory(call[c])) :
       LET r == call[c]
           p == PrevRank(tasks, r, ord)
           n == NextRank(tasks, r, ord)
       IN  IF DegenerateRange(p, n)
             THEN call' = [call EXCEPT ![c].pc = "done",
                                       ![c].result = CatchResult,
                                       ![c].fault = "generator",
                                       ![c].reads = 1,
                                       ![c].prevRank = p, ![c].nextRank = n]
             ELSE call' = [call EXCEPT ![c].pc = "update", ![c].reads = 1,
                                       ![c].prevRank = p, ![c].nextRank = n,
                                       ![c].newRank = midString(p, n)]
  /\ UNCHANGED << store, counters, gen >>

\* Task.update({id}, {rank}): one UPDATE statement
UpdateRankUnique(tk, id, rk) ==
  IF id \in DOMAIN tk
     /\ \A u \in DOMAIN tk \ {id} :
          ~(tk[u].story = tk[id].story /\ tk[u].rank = rk)
    THEN [tk EXCEPT ![id].rank = rk] ELSE tk
UpdateRankEveryRow(tk, id, rk) ==
  [t \in DOMAIN tk |-> [tk[t] EXCEPT !.rank = rk]]
UpdateRank(tk, id, rk) ==
  IF id \in DOMAIN tk THEN [tk EXCEPT ![id].rank = rk] ELSE tk

\* Task.update({id}, {rank, story: {id}}): one UPDATE statement
UpdateRankOnly(tk, id, rk, s) ==
  IF id \in DOMAIN tk THEN [tk EXCEPT ![id].rank = rk] ELSE tk
UpdateRankAndStory(tk, id, rk, s) ==
  IF id \in DOMAIN tk THEN [tk EXCEPT ![id].rank = rk, ![id].story = s] ELSE tk

MoveCommit(c) ==
  /\ call[c].pc = "update"
  /\ LET r == call[c]
     IN  tasks' = IF r.sourceStoryId = r.destinationStoryId
                    THEN UpdateRank(tasks, r.taskId, r.newRank)
                    ELSE UpdateRankAndStory(tasks, r.taskId, r.newRank,
                                            r.destinationStoryId)
  /\ call' = [call EXCEPT ![c].pc = "done", ![c].result = "true",
                          ![c].writes = 1,
                          ![c].racing =
                            { call[d].seq : d \in
                                { e \in Calls \ {c} :
                                    /\ call[e].op = "moveTask"
                                    /\ call[e].pc = "update" } }]
  /\ UNCHANGED << users, nextId, counters, gen >>

\* a query or an update of moveTask rejects; the catch returns false
MoveFault(c) ==
  /\ call[c].op = "moveTask"
  /\ call[c].pc \in {"read", "update"}
  /\ Finish(c, CatchResult, call[c].pc)
  /\ UNCHANGED << store, counters, gen >>

(***************************************************************************)
(* createTask                                                              *)
(***************************************************************************)
CreateBegin(c, s, titleLength, keep) ==
  /\ Free(c)
  /\ creates' = creates + 1
  /\ call' = [call EXCEPT ![c] =
       [ IdleCall EXCEPT
           !.pc = IF titleLength <= 2 THEN "done" ELSE "find",
           !.result = IF titleLength <= 2 THEN "errors" ELSE "none",
           !.op = "createTask", !.destinationStoryId = s,
           !.pre = Snapshot(keep) ]]
  /\ UNCHANGED << store, moves, others, gen >>

\* rank of a new task given the rank of the first task of the story
FirstRankAppend(first) ==
  IF first # NoKey THEN midString(first, NoKey) ELSE midString(NoKey, NoKey)
FirstRank(first) ==
  IF first # NoKey THEN midString(NoKey, first) ELSE midString(NoKey, NoKey)

\* Task.findOne({where: story, order: rank ASC}) returns
CreateFind(c) ==
  /\ call[c].op = "createTask"
  /\ call[c].pc = "find"
  /\ \E ord \in Orderings(tasks, call[c].destinationStoryId) :
       call' = [call EXCEPT ![c].pc = "insert", ![c].reads = 1,
                            ![c].nextRank = RankAt(tasks, ord, 1),
                            ![c].newRank = FirstRank(RankAt(tasks, ord, 1))]
  /\ UNCHANGED << store, counters, gen >>

\* insert().into(Task).values({title, description, rank}) returns the row
CreateInsert(c) ==
  /\ call[c].op = "createTask"
  /\ call[c].pc = "insert"
  /\ tasks' = [t \in DOMAIN tasks \cup {nextId} |->
                 IF t = nextId THEN [rank |-> call[c].newRank, story |-> NoStory]
                 ELSE tasks[t]]
  /\ nextId' = nextId + 1
  /\ call' = [call EXCEPT ![c].pc = "setStory", ![c].taskId = nextId,
                          ![c].writes = 1]
  /\ UNCHANGED << users, counters, gen >>

\* relation(Task, "story").of(task.id).set(storyId)
CreateSetStory(c) ==
  /\ call[c].op = "createTask"
  /\ call[c].pc = "setStory"
  /\ tasks' = IF call[c].taskId \in DOMAIN tasks
                THEN [tasks EXCEPT ![call[c].taskId].story =
                                      call[c].destinationStoryId]
                ELSE tasks
  /\ call' = [call EXCEPT ![c].pc = "done", ![c].result = "task",
                          ![c].writes = 2]
  /\ UNCHANGED << users, nextId, counters, gen >>

\* a statement of createTask rejects; the catch returns the error
CreateFault(c) ==
  /\ call[c].op = "createTask"
  /\ call[c].pc \in {"find", "insert", "setStory"}
  /\ Finish(c, "errors", call[c].pc)
  /\ UNCHANGED << store, counters, gen >>

(***************************************************************************)
(* assignUserToTask, removeUserFromTask, deleteTask: one statement each    *)
(***************************************************************************)
OtherBegin(c, name, t, u) ==
  /\ Free(c)
  /\ others' = others + 1
  /\ call' = [call EXCEPT ![c] =
       [ IdleCall EXCEPT !.pc = "statement", !.op = name, !.taskId = t,
                         !.userId = u,
                         !.pre = Snapshot(FALSE) ]]
  /\ UNCHANGED << store, creates, moves, gen >>

AssignUserToTaskBegin(c, t, u) == OtherBegin(c, "assignUserToTask", t, u)

RemoveUserFromTaskBegin(c, t, u) ==
  OtherBegin(c, "removeUserFromTask", t, u)

DeleteTaskBegin(c, t) == OtherBegin(c, "deleteTask", t, 0)

\* relation(Task, "users").of(taskId).add(userId): the insert into the join
\* table rejects when the task is missing or the row is already there
AssignUserToTask(c) ==
  /\ call[c].op = "assignUserToTask"
  /\ call[c].pc = "statement"
  /\ IF call[c].taskId \in DOMAIN tasks /\ << call[c].taskId, call[c].userId >> \notin users
       THEN /\ users' = users \cup { << call[c].taskId, call[c].userId >> }
            /\ call' = [call EXCEPT ![c].pc = "done", ![c].result = "true",
                                    ![c].writes = 1]
       ELSE /\ users' = users
            /\ Finish(c, "false", "statement")
  /\ UNCHANGED << tasks, nextId, counters, gen >>

\* relation(Task, "users").of(taskId).remove(userId)
RemoveUserFromTask(c) ==
  /\ call[c].op = "removeUserFromTask"
  /\ call[c].pc = "statement"
  /\ users' = users \ { << call[c].taskId, call[c].userId >> }
  /\ call' = [call EXCEPT ![c].pc = "done", ![c].result = "true",
                          ![c].writes = 1]
  /\ UNCHANGED << tasks, nextId, counters, gen >>

\* delete().from(Task).where({id}): the row goes, and its join rows with it
DeleteTask(c) ==
  /\ call[c].op = "deleteTask"
  /\ call[c].pc = "statement"
  /\ tasks' = [t \in DOMAIN tasks \ {call[c].taskId} |-> tasks[t]]
  /\ users' = { p \in users : p[1] # call[c].taskId }
  /\ call' = [call EXCEPT ![c].pc = "done", ![c].result = "true",
                          ![c].writes = 1]
  /\ UNCHANGED << nextId, counters, gen >>

\* the statement rejects; the catch returns false
OtherFault(c) ==
  /\ call[c].op \in {"assignUserToTask", "removeUserFromTask", "deleteTask"}
  /\ call[c].pc = "statement"
  /\ Finish(c, "false", "statement")
  /\ UNCHANGED << store, counters, gen >>

(***************************************************************************)
(* Specifications.                                                         *)
(***************************************************************************)
\* a client sends a moveTask or a createTask request
BeginOrdering(c, maxTasks, maxMoves, lowIndex, highIndex, keep) ==
  \/ /\ moves < maxMoves
     /\ \E t \in 1..maxTasks, si \in lowIndex..highIndex,
           di \in lowIndex..highIndex,
           ss \in Stories, ds \in Stories :
          MoveBegin(c, t, si, di, ss, ds, keep)
  \/ /\ creates < maxTasks
     /\ \E s \in Stories, len \in TitleLengths : CreateBegin(c, s, len, keep)

\* a client sends one of the other requests of the resolver
BeginOther(c, maxTasks, maxOther) ==
  /\ others < maxOther
  /\ \/ \E t \in 1..maxTasks, u \in Users : AssignUserToTaskBegin(c, t, u)
     \/ \E t \in 1..maxTasks, u \in Users : RemoveUserFromTaskBegin(c, t, u)
     \/ \E t \in 1..maxTasks : DeleteTaskBegin(c, t)

\* a statement of a moveTask or a createTask call completes
StepOrdering(c) ==
  \/ MoveRead(c)
  \/ MoveCommit(c)
  \/ MoveFault(c)
  \/ CreateFind(c)
  \/ CreateInsert(c)
  \/ CreateSetStory(c)
  \/ CreateFault(c)

\* the statement of one of the other calls completes
StepOther(c) ==
  \/ AssignUserToTask(c)
  \/ RemoveUserFromTask(c)
  \/ DeleteTask(c)
  \/ OtherFault(c)

\* createTask and moveTask calls run one at a time: a single client that
\* awaits each response
Next ==
  BeginOrdering(1, MaxTasks, MaxMoves, -1, MaxIndex, TRUE) \/ StepOrdering(1)

Spec == Init /\ [][Next]_vars

\* createTask and moveTask calls of several clients interleave at their
\* awaits
NextConc ==
  \E c \in Calls :
    \/ BeginOrdering(c, ConcTasks, ConcMoves, 0, ConcMaxIndex, FALSE)
    \/ StepOrdering(c)

SpecConc == Init /\ [][NextConc]_vars

\* calls of every handler of the resolver interleave at their awaits
NextAll ==
  \E c \in Calls :
    \/ BeginOrdering(c, AllTasks, AllMoves, 0, ConcMaxIndex, FALSE)
    \/ BeginOther(c, AllTasks, AllOther)
    \/ StepOrdering(c)
    \/ StepOther(c)

SpecAll == Init /\ [][NextAll]_vars

\* the generator on its own, on every pair of bounds of the key space
GenInit ==
  /\ StoreInit
  /\ genPrev \in Keys \cup {NoKey}
  /\ genNext \in Keys \cup {NoKey}
  /\ genOut = Pending

\* generate(prev, next) on bounds that satisfy the caller contract
GenApply ==
  /\ genOut = Pending
  /\ ~DegenerateRange(genPrev, genNext)
  /\ genOut' = [status |-> "key", key |-> midString(genPrev, genNext)]
  /\ UNCHANGED << store, call, counters, genPrev, genNext >>

\* generate(prev, next) on inverted or equal bounds
GenReject ==
  /\ genOut = Pending
  /\ DegenerateRange(genPrev, genNext)
  /\ genOut' = [status |-> "DegenerateRangeError", key |-> NoKey]
  /\ UNCHANGED << store, call, counters, genPrev, genNext >>

NextGen == GenApply \/ GenReject

SpecGen == GenInit /\ [][NextGen]_vars

(***************************************************************************)
(* Reading a story back in ascending rank order.                           *)
(***************************************************************************)
\* no two tasks of story s have the same rank
DistinctRanks(tk, s) ==
  \A a, b \in TasksOf(tk, s) : a # b => tk[a].rank # tk[b].rank

\* the order of story s when its ranks are pairwise distinct
OrderOf(tk, s) == CHOOSE f \in Orderings(tk, s) : TRUE

\* position (from 0, as the callers count) of task t in an order
IndexIn(ord, t) == (CHOOSE k \in 1..Len(ord) : ord[k] = t) - 1

Without(ord, t) == SelectSeq(ord, LAMBDA x : x # t)

MoveDone(c) ==
  /\ call[c].op = "moveTask"
  /\ call[c].pc = "done"

(***************************************************************************)
(* C1.  Same-story move.                                                   *)
(***************************************************************************)
\* a finished moveTask inside one story whose ranks were pairwise distinct,
\* with the task's true index as sourceIndex and an in-range destination
SameStoryCase(c) ==
  LET r == call[c]
  IN  /\ MoveDone(c)
      /\ r.result = "true"
      /\ r.sourceStoryId = r.destinationStoryId
      /\ r.taskId \in TasksOf(r.pre, r.sourceStoryId)
      /\ DistinctRanks(r.pre, r.sourceStoryId)
      /\ IndexIn(OrderOf(r.pre, r.sourceStoryId), r.taskId) = r.sourceIndex
      /\ r.destinationIndex >= 0
      /\ r.destinationIndex < Cardinality(TasksOf(r.pre, r.sourceStoryId))
      /\ r.destinationIndex # r.sourceIndex

\* C1: after a same-story moveTask (accurate sourceIndex, destinationIndex in
\* range and different, distinct ranks) returns true, the moved task is at
\* index destinationIndex of the story's ascending-rank order and the other
\* tasks keep their relative order.
C1_SameStoryOrderPreserved ==
  \A c \in Calls :
    SameStoryCase(c) =>
      LET r == call[c]
      IN  \A ord \in Orderings(tasks, r.sourceStoryId) :
            /\ ord[r.destinationIndex + 1] = r.taskId
            /\ Without(ord, r.taskId) =
                 Without(OrderOf(r.pre, r.sourceStoryId), r.taskId)

\* a forward move to a position that is neither the first nor the last
C1_Witness ==
  \E c \in Calls :
    /\ SameStoryCase(c)
    /\ call[c].sourceIndex < call[c].destinationIndex
    /\ call[c].destinationIndex + 1 <
         Cardinality(TasksOf(call[c].pre, call[c].sourceStoryId))

(***************************************************************************)
(* C2.  Move to another story.                                             *)
(***************************************************************************)
OtherStoryCase(c) ==
  LET r == call[c]
  IN  /\ MoveDone(c)
      /\ r.result = "true"
      /\ r.sourceStoryId # r.destinationStoryId
      /\ r.taskId \in TasksOf(r.pre, r.sourceStoryId)
      /\ DistinctRanks(r.pre, r.destinationStoryId)
      /\ r.destinationIndex >= 0
      /\ r.destinationIndex <= Cardinality(TasksOf(r.pre, r.destinationStoryId))

\* C2: after a moveTask from story A to another story B (destinationIndex in
\* 0..|B|, B's ranks distinct) returns true, the task belongs to B, it is at
\* index destinationIndex of B's order with its rank strictly between B's
\* former tasks at destinationIndex-1 and destinationIndex, and every other
\* task keeps its rank and its story.
C2_OtherStoryMove ==
  \A c \in Calls :
    OtherStoryCase(c) =>
      LET r == call[c]
          before == OrderOf(r.pre, r.destinationStoryId)
          di == r.destinationIndex
      IN  /\ tasks[r.taskId].story = r.destinationStoryId
          /\ \A ord \in Orderings(tasks, r.destinationStoryId) :
               /\ ord[di + 1] = r.taskId
               /\ Without(ord, r.taskId) = before
          /\ di >= 1 => KeyLess(r.pre[before[di]].rank, tasks[r.taskId].rank)
          /\ di < Len(before) =>
               KeyLess(tasks[r.taskId].rank, r.pre[before[di + 1]].rank)
          /\ \A u \in DOMAIN r.pre : u # r.taskId => tasks[u] = r.pre[u]

\* the task lands between two tasks of the destination story
C2_Witness ==
  \E c \in Calls :
    /\ OtherStoryCase(c)
    /\ call[c].destinationIndex = 1
    /\ Cardinality(TasksOf(call[c].pre, call[c].destinationStoryId)) = 2

(***************************************************************************)
(* C3.  Rank uniqueness under sequential use.                              *)
(***************************************************************************)
\* C3: after any sequence of createTask and moveTask calls run one at a
\* time, with any accepted arguments, no two tasks of a story have the same
\* rank.
C3_RankUniqueness == \A s \in Stories : DistinctRanks(tasks, s)

(***************************************************************************)
(* C4, C5.  The generator.                                                 *)
(***************************************************************************)
\* C4: for keys a < b, generate(a, b) returns a key m with a < m < b.
C4_Density ==
  (/\ genOut # Pending
   /\ genPrev # NoKey
   /\ genNext # NoKey
   /\ KeyLess(genPrev, genNext))
  => /\ genOut.status = "key"
     /\ IsKey(genOut.key)
     /\ KeyLess(genPrev, genOut.key)
     /\ KeyLess(genOut.key, genNext)

\* adjacent bounds: the result is longer than both
C4_Witness ==
  /\ genOut.status = "key"
  /\ genPrev # NoKey
  /\ genNext # NoKey
  /\ Len(genOut.key) > Len(genPrev)
  /\ Len(genOut.key) > Len(genNext)

\* C5: generate(None, b) is a key below b, generate(a, None) is a key above a,
\* and generate(None, None) is the canonical default key.
C5_Boundary ==
  (genOut # Pending /\ (genPrev = NoKey \/ genNext = NoKey))
  => /\ genOut.status = "key"
     /\ IsKey(genOut.key)
     /\ genNext # NoKey => KeyLess(genOut.key, genNext)
     /\ genPrev # NoKey => KeyLess(genPrev, genOut.key)
     /\ (genPrev = NoKey /\ genNext = NoKey) => genOut.key = DefaultKey

\* a key below an upper bound that starts with 'a'
C5_Witness ==
  /\ genOut.status = "key"
  /\ genPrev = NoKey
  /\ genNext # NoKey
  /\ genNext[1] = 1

(***************************************************************************)
(* C6.  createTask prepends.                                               *)
(***************************************************************************)
CreateDone(c) ==
  /\ call[c].op = "createTask"
  /\ call[c].pc = "done"
  /\ call[c].result = "task"

\* C6: a createTask that succeeds on a non-empty story gives the new task a
\* rank below every rank the story had, so the task is first in the story's
\* order; on an empty story the rank is the canonical default key.
C6_CreatePrepends ==
  \A c \in Calls :
    CreateDone(c) =>
      LET r == call[c]
          old == TasksOf(r.pre, r.destinationStoryId)
      IN  /\ r.taskId \in TasksOf(tasks, r.destinationStoryId)
          /\ \A u \in old : KeyLess(tasks[r.taskId].rank, r.pre[u].rank)
          /\ \A ord \in Orderings(tasks, r.destinationStoryId) :
               ord[1] = r.taskId
          /\ old = {} => tasks[r.taskId].rank = DefaultKey

\* a task created in a story that already had two
C6_Witness ==
  \E c \in Calls :
    /\ CreateDone(c)
    /\ Cardinality(TasksOf(call[c].pre, call[c].destinationStoryId)) = 2

(***************************************************************************)
(* C7.  The update of a move to another story is one step.                 *)
(***************************************************************************)
OtherStoryMoveOf(c) ==
  /\ call[c].op = "moveTask"
  /\ call[c].pc \in {"read", "update", "done"}
  /\ call[c].sourceStoryId # call[c].destinationStoryId
  /\ call[c].taskId \in DOMAIN call[c].pre

\* C7: at every point of a moveTask to another story, the task has either
\* the rank and story it had before the call, or the computed rank and the
\* destination story; never one new field with one old field.
C7_CommitAtomic ==
  \A c \in Calls :
    OtherStoryMoveOf(c) =>
      LET r == call[c]
      IN  \/ tasks[r.taskId] = r.pre[r.taskId]
          \/ /\ call[c].pc = "done"
             /\ tasks[r.taskId] =
                  [rank |-> r.newRank, story |-> r.destinationStoryId]

\* a committed move that changed both the rank and the story
C7_Witness ==
  \E c \in Calls :
    /\ OtherStoryMoveOf(c)
    /\ call[c].result = "true"
    /\ tasks[call[c].taskId].rank # call[c].pre[call[c].taskId].rank
    /\ tasks[call[c].taskId].story # call[c].pre[call[c].taskId].story

(***************************************************************************)
(* C8.  Early exits.                                                       *)
(***************************************************************************)
\* C8: a moveTask with a negative index, or inside one story with equal
\* indexes, returns false without a query or an update, and no task changes.
C8_EarlyExit ==
  \A c \in Calls :
    (/\ call[c].op = "moveTask"
     /\ \/ call[c].sourceIndex < 0
        \/ call[c].destinationIndex < 0
        \/ /\ call[c].sourceStoryId = call[c].destinationStoryId
           /\ call[c].sourceIndex = call[c].destinationIndex)
    => /\ call[c].pc = "done"
       /\ call[c].result = "false"
       /\ call[c].reads = 0
       /\ call[c].writes = 0
       /\ tasks = call[c].pre

\* a move of an existing task to its own position
C8_Witness ==
  \E c \in Calls :
    /\ MoveDone(c)
    /\ call[c].taskId \in DOMAIN tasks
    /\ call[c].sourceStoryId = call[c].destinationStoryId
    /\ call[c].sourceIndex = call[c].destinationIndex
    /\ call[c].sourceIndex >= 0
    /\ call[c].result = "false"

(***************************************************************************)
(* C9.  Storage faults.                                                    *)
(***************************************************************************)
\* C9: when the neighbour query or the update of a moveTask fails, the call
\* returns false and every task has the rank and story it had before.
C9_FaultNoEffect ==
  \A c \in Calls :
    (MoveDone(c) /\ call[c].fault \in {"read", "update"})
    => /\ call[c].result = "false"
       /\ call[c].writes = 0
       /\ tasks = call[c].pre

\* the update of a move of an existing task to another story failed
C9_Witness ==
  \E c \in Calls :
    /\ MoveDone(c)
    /\ call[c].fault = "update"
    /\ call[c].taskId \in DOMAIN tasks
    /\ call[c].sourceStoryId # call[c].destinationStoryId
    /\ call[c].newRank # tasks[call[c].taskId].rank

(***************************************************************************)
(* C10.  Only a move of a task changes its rank or story.                  *)
(***************************************************************************)
\* this step is the update of a moveTask call for task t
MoveCommitOf(t) ==
  \E c \in Calls :
    /\ call[c].op = "moveTask"
    /\ call[c].pc = "update"
    /\ call[c].taskId = t
    /\ call'[c].pc = "done"
    /\ call'[c].result = "true"
    /\ tasks'[t].rank = call[c].newRank

\* this step completes the creation of task t: the createTask call that
\* inserted it sets its story
CreationOf(t) ==
  \E c \in Calls :
    /\ call[c].op = "createTask"
    /\ call[c].pc = "setStory"
    /\ call[c].taskId = t
    /\ call'[c].pc = "done"
    /\ tasks'[t].rank = tasks[t].rank

RaceBeforeSecondWrite(c1, c2) ==
  /\ c1 # c2
  /\ call[c1].op = "moveTask"
  /\ call[c2].op = "moveTask"
  /\ call[c1].pc = "done"
  /\ call[c1].writes = 1
  /\ call[c2].pc = "update"
  /\ call[c2].seq \in call[c1].racing
  /\ call[c1].taskId # call[c2].taskId
  /\ call[c1].taskId \in DOMAIN tasks
  /\ call[c2].taskId \in DOMAIN tasks
  /\ QueryStory(call[c1]) = QueryStory(call[c2])
  /\ call[c1].prevRank = call[c2].prevRank
  /\ call[c1].nextRank = call[c2].nextRank
  /\ tasks[call[c1].taskId] =
       [rank |-> call[c1].newRank, story |-> QueryStory(call[c1])]
  /\ call[c2].sourceStoryId = call[c2].destinationStoryId =>
       tasks[call[c2].taskId].story = call[c2].sourceStoryId

\* C11: when two moveTask calls for different tasks and the same story both
\* read the same (prev, next) pair before either writes, the second write
\* is neither prevented nor detected: both calls computed the same rank, both
\* return true, and the story then has two tasks of equal rank.
C11_DuplicateRankRace ==
  [][ \A c1, c2 \in Calls :
        (/\ RaceBeforeSecondWrite(c1, c2)
         /\ call'[c2].pc = "done"
         /\ call'[c2].fault = "none")
        => /\ call[c1].newRank = call[c2].newRank
           /\ call[c1].result = "true"
           /\ call'[c2].result = "true"
           /\ tasks'[call[c1].taskId].story = tasks'[call[c2].taskId].story
           /\ tasks'[call[c1].taskId].rank = tasks'[call[c2].taskId].rank
           /\ ~DistinctRanks(tasks', QueryStory(call[c2])) ]_vars

\* both calls have returned true after reading the same existing neighbour,
\* and their two tasks have the same rank in the same story
C11_Witness ==
  \E c1, c2 \in Calls :
    /\ c1 # c2
    /\ MoveDone(c1)
    /\ MoveDone(c2)
    /\ call[c1].result = "true"
    /\ call[c2].result = "true"
    /\ call[c2].seq \in call[c1].racing
    /\ call[c1].taskId # call[c2].taskId
    /\ call[c1].taskId \in DOMAIN tasks
    /\ call[c2].taskId \in DOMAIN tasks
    /\ call[c1].prevRank = call[c2].prevRank
    /\ call[c1].nextRank = call[c2].nextRank
    /\ call[c1].nextRank # NoKey
    /\ tasks[call[c1].taskId].story \in Stories
    /\ tasks[call[c1].taskId] = tasks[call[c2].taskId]

(***************************************************************************)
(* C12.  Two moves of the same task.                                       *)
(***************************************************************************)
\* two finished moveTask calls for the same task, each with arguments that
\* described the table it started on; c2 had read when c1 wrote, and wrote
\* after it
OverlappingMoves(c1, c2) ==
  /\ c1 # c2
  /\ MoveDone(c1)
  /\ MoveDone(c2)
  /\ call[c1].result = "true"
  /\ call[c2].result = "true"
  /\ call[c2].seq \in call[c1].racing
  /\ call[c1].taskId = call[c2].taskId
  /\ call[c1].taskId \in DOMAIN tasks
  /\ call[c1].accurate
  /\ call[c2].accurate

\* C12: after two overlapping moveTask calls for the same task, the task has
\* the rank computed by the call that wrote last together with the story
\* that call moved it to; never the rank of one call with the story of the
\* other.
C12_LastCommitWins ==
  \A c1, c2 \in Calls :
    OverlappingMoves(c1, c2) =>
      tasks[call[c2].taskId] =
        [rank |-> call[c2].newRank, story |-> call[c2].destinationStoryId]

(***************************************************************************)
(* C13.  The rows the neighbour query skips.                               *)
(***************************************************************************)
\* a moveTask call with destinationIndex > 0 whose query has returned
NeighboursRead(c) ==
  /\ call[c].op = "moveTask"
  /\ call[c].reads = 1
  /\ call[c].destinationIndex > 0

\* prevTask and nextTask of call c are the first two rows of the destination
\* story (as it was when the call started) after skipping off rows
ReadAfterSkipping(c, off) ==
  \E ord \in Orderings(call[c].pre, call[c].destinationStoryId) :
    /\ call[c].prevRank = RankAt(call[c].pre, ord, off + 1)
    /\ call[c].nextRank = RankAt(call[c].pre, ord, off + 2)

\* C13 as claimed: for destinationIndex > 0 the query skips
\* destinationIndex - 1 rows for a backward move inside one story and
\* destinationIndex rows in every other case, moves to another story
\* included.
C13_OffsetRuleAsClaimed ==
  \A c \in Calls :
    NeighboursRead(c) =>
      ReadAfterSkipping(c,
        IF /\ call[c].sourceStoryId = call[c].destinationStoryId
           /\ call[c].destinationIndex < call[c].sourceIndex
          THEN call[c].destinationIndex - 1
          ELSE call[c].destinationIndex)

\* C13 amended: for destinationIndex > 0 the query skips destinationIndex
\* rows for a forward move inside one story, and destinationIndex - 1 rows
\* for a backward move inside one story and for every move to another story.
C13_OffsetRule ==
  \A c \in Calls :
    NeighboursRead(c) =>
      ReadAfterSkipping(c,
        IF /\ call[c].sourceStoryId = call[c].destinationStoryId
           /\ call[c].destinationIndex > call[c].sourceIndex
          THEN call[c].destinationIndex
          ELSE call[c].destinationIndex - 1)

\* a move to position 1 of another story that has two tasks: the two rows
\* read are its first and second task
C13_Witness ==
  \E c \in Calls :
    /\ NeighboursRead(c)
    /\ call[c].sourceStoryId # call[c].destinationStoryId
    /\ call[c].destinationIndex = 1
    /\ Cardinality(TasksOf(call[c].pre, call[c].destinationStoryId)) = 2
    /\ call[c].prevRank # NoKey
    /\ call[c].nextRank # NoKey

(***************************************************************************)
(* C14.  Every task has a story.                                           *)
(***************************************************************************)
\* C14: in every reachable state, between the steps of createTask and after
\* a createTask that returned errors included, every stored task belongs to
\* exactly one story.
C14_EveryTaskHasStory == \A t \in DOMAIN tasks : tasks[t].story \in Stories

(***************************************************************************)
(* C15.  Repeating a move.                                                 *)
(***************************************************************************)
\* a finished repetition of the moveTask call that had just returned true,
\* with no storage fault
RetryDone(c) ==
  /\ MoveDone(c)
  /\ call[c].retry
  /\ call[c].fault \notin {"read", "update"}

\* C15: when a moveTask call with an accurate sourceIndex and an in-range
\* destinationIndex returned true and the same call is made again with
\* nothing in between, the second call also returns true and every story
\* reads back in the same order, every task in the same story, as after the
\* first call.
C15_RetryKeepsOrder ==
  \A c \in Calls :
    RetryDone(c) =>
      /\ call[c].result = "true"
      /\ DOMAIN tasks = DOMAIN call[c].pre
      /\ \A t \in DOMAIN tasks : tasks[t].story = call[c].pre[t].story
      /\ \A s \in Stories : Orderings(tasks, s) = Orderings(call[c].pre, s)

\* a repeated move inside a story of three tasks gave the task a new rank
C15_Witness ==
  \E c \in Calls :
    /\ RetryDone(c)
    /\ call[c].result = "true"
    /\ call[c].sourceStoryId = call[c].destinationStoryId
    /\ Cardinality(TasksOf(tasks, call[c].sourceStoryId)) = 3
    /\ tasks[call[c].taskId].rank # call[c].pre[call[c].taskId].rank

====
